---- MODULE Spec2Model ----
(***************************************************************************)
(* EasyIO.rs: the buffered token reader (src/src/input_reader.rs) and the  *)
(* buffered writer (src/src/output_writer.rs).                             *)
(*                                                                         *)
(* Bytes are their ASCII codes.  A reader is a record holding the fields   *)
(* of InputReader together with its byte source; every method is an        *)
(* operator from reader records to reader records, a panic or a blocking   *)
(* read being recorded in the field err, which every later step of the     *)
(* same call propagates unchanged.                                         *)
(***************************************************************************)
EXTENDS Integers, Sequences, FiniteSets

VARIABLES
    ir,        \* the InputReader and its byte source
    last,      \* name of the last method called
    arg,       \* argument of the last set_buf_size call; bytes buffered when drop began
    out,       \* values returned so far, in call order (history)
    calls,     \* names of the calls that returned them (history)
    pre,       \* the reader as it was when a call that now waits in read() began
    ow,        \* the OutputWriter and its sink
    written,   \* every byte handed to a write operation, in call order (history)
    collapsed, \* whether s2nl was called explicitly (history)
    vals,      \* the values an input or an output was generated from
    twin,      \* a second reader of the same input, taking the same calls as ir
    stage      \* life cycle of the objects of the specification at hand

vars == <<ir, last, arg, out, calls, pre, ow, written, collapsed, vals, twin, stage>>

----------------------------------------------------------------------------
(* Bounds of the model *)

\* longest input of the general reader specification
MaxLen == 3
\* most chunk boundaries a source places inside an input (besides one-byte reads)
MaxCuts == 2
\* most integers in a generated integer input
MaxNums == 2
\* most chunk boundaries inside a generated integer input (besides one-byte reads)
MaxIntCuts == 1
\* largest argument tried for set_buf_size
MaxBuf == 2
\* most bytes written to an OutputWriter
MaxOut == 4
\* most values of a round trip
MaxVals == 2
\* most messages of a dialogue
MaxMsgs == 2
\* most explicit flush calls on a sink that may reject
MaxFlushes == 2
\* largest fixed number of bytes per read of a dialogue's source (besides whole reads)
MaxChunk == 2

----------------------------------------------------------------------------
(* Bytes *)

SP  == 32
NL  == 10
MINUS == 45
None == 0 - 1

is_ascii_graphic(c) == c >= 33 /\ c <= 126
is_ascii_digit(c) == c >= 48 /\ c <= 57

Graphic == {c \in 0..127 : is_ascii_graphic(c)}
Digit == {c \in 0..127 : is_ascii_digit(c)}
DigitOrMinus == Digit \cup {MINUS}

SetMin(S) == CHOOSE x \in S : \A y \in S : x <= y
Min2(a, b) == IF a <= b THEN a ELSE b

----------------------------------------------------------------------------
(* The byte source: Read::read on a source holding data, which delivers    *)
(* at most up to the next chunk boundary (cuts) and up to what its         *)
(* producer has sent (avail); closed means the producer will send no more. *)

\* vec![0; 1 << 16]
DefaultBufSize == 65536

Source(data, cuts, avail, closed) ==
    [data |-> data, cuts |-> cuts, avail |-> avail, closed |-> closed, pos |-> 0]

\* number of bytes one read delivers now (0: end of input, or an empty buffer)
ReadLen(r) ==
    LET stop == SetMin({c \in r.cuts : c > r.pos} \cup {r.avail})
    IN  Min2(r.buf_len, stop - r.pos)

\* a read that has to wait for the producer
ReadBlocks(r) == r.buf_len > 0 /\ r.pos >= r.avail /\ ~r.closed

\* buf[i] (0-based); the buffer is kept as its written prefix, the rest is 0
BufAt(r, i) == IF i < Len(r.buf) THEN r.buf[i + 1] ELSE 0

\* self.reader.read(&mut self.buf[..]): n bytes land at buf[0..n]
read(r) ==
    IF ReadBlocks(r) THEN [r EXCEPT !.err = "blocked"]
    ELSE LET n == ReadLen(r)
         IN  [r EXCEPT !.buf = SubSeq(r.data, r.pos + 1, r.pos + n)
                                \o SubSeq(r.buf, n + 1, Len(r.buf)),
                       !.pos = r.pos + n,
                       !.got = n]

----------------------------------------------------------------------------
(* InputReader: private methods and lookahead                              *)
(*                                                                         *)
(* Only({e(s) : s \in {x}}) reads "let s = x in e(s)", x evaluated once.   *)

Only(S) == CHOOSE x \in S : TRUE

\* (mutant) a refill that leaves the cursor where it was
has_more_NoReset(r) ==
    IF r.err # "none" THEN r
    ELSE IF r.current_index >= r.bytes_read
         THEN Only({ IF s.err # "none" THEN s
                     ELSE [s EXCEPT !.bytes_read = s.got,
                                    !.ok = (s.got > 0)]
                     : s \in {read(r)} })
         ELSE [r EXCEPT !.ok = (r.bytes_read > 0)]

\* (mutant) a refill that comes one byte early, the last buffered byte unread
has_more_Early(r) ==
    IF r.err # "none" THEN r
    ELSE IF r.current_index + 1 >= r.bytes_read
         THEN Only({ IF s.err # "none" THEN s
                     ELSE [s EXCEPT !.bytes_read = s.got,
                                    !.current_index = 0,
                                    !.ok = (s.got > 0)]
                     : s \in {read(r)} })
         ELSE [r EXCEPT !.ok = (r.bytes_read > 0)]

has_more(r) ==
    IF r.err # "none" THEN r
    ELSE IF r.current_index >= r.bytes_read
         THEN Only({ IF s.err # "none" THEN s
                     ELSE [s EXCEPT !.bytes_read = s.got,
                                    !.current_index = 0,
                                    !.ok = (s.got > 0)]
                     : s \in {read(r)} })
         ELSE [r EXCEPT !.ok = (r.bytes_read > 0)]

\* self.current_index += 1; seen (history) records the byte passed over,
\* overrun (history) a call made when no buffered byte was left to consume
consume(r) ==
    IF r.err # "none" THEN r
    ELSE [r EXCEPT !.current_index = r.current_index + 1,
                   !.seen = Append(r.seen, BufAt(r, r.current_index)),
                   !.overrun = r.overrun \/ r.current_index >= r.bytes_read]

assert_has_more(r) ==
    Only({ IF s.err # "none" THEN s
           ELSE IF ~s.ok THEN [s EXCEPT !.err = "Reached end of input"]
           ELSE s
           : s \in {has_more(r)} })

\* self.buf[self.current_index]: an index outside the Vec panics
Index(s) ==
    IF s.current_index < s.buf_len
    THEN [s EXCEPT !.ch = BufAt(s, s.current_index)]
    ELSE [s EXCEPT !.err = "index out of bounds"]

peek(r) ==
    Only({ IF s.err # "none" THEN s ELSE Index(s) : s \in {assert_has_more(r)} })

\* (mutant) a lookahead that passes over the byte it returns
opt_peek_Advance(r) ==
    Only({ IF s.err # "none" THEN s
           ELSE IF s.ok THEN consume(Index(s))
           ELSE [s EXCEPT !.ch = None]
           : s \in {has_more(r)} })

opt_peek(r) ==
    Only({ IF s.err # "none" THEN s
           ELSE IF s.ok THEN Index(s)
           ELSE [s EXCEPT !.ch = None]
           : s \in {has_more(r)} })

RECURSIVE consume_until(_, _)
consume_until(r, test) ==
    Only({ IF s.err # "none" THEN s
           ELSE IF s.ch \in test THEN s
           ELSE consume_until(consume(s), test)
           : s \in {peek(r)} })

RECURSIVE consume_until_or_end(_, _)
\* (mutant) ends the skip, instead of reading, when a read would have to wait
consume_until_or_end_NoWait(r, test) ==
    IF r.err = "none" /\ r.current_index >= r.bytes_read /\ ReadBlocks(r)
    THEN [r EXCEPT !.ch = None]
    ELSE Only({ IF s.err # "none" THEN s
                ELSE IF s.ch # None /\ s.ch \notin test
                     THEN consume_until_or_end(consume(s), test)
                ELSE s
                : s \in {opt_peek(r)} })

consume_until_or_end(r, test) ==
    Only({ IF s.err # "none" THEN s
           ELSE IF s.ch # None /\ s.ch \notin test
                THEN consume_until_or_end(consume(s), test)
           ELSE s
           : s \in {opt_peek(r)} })

\* after the '-' is consumed: return -1 before a digit, else go round the loop
RECURSIVE consume_until_signed_num(_)
\* (mutant) looks for the digit in the buffered bytes only, without a refill
AfterMinus_NoRefill(a) ==
    Only({ IF c.current_index < c.bytes_read /\ is_ascii_digit(BufAt(c, c.current_index))
           THEN [c EXCEPT !.sign = 0 - 1, !.ch = BufAt(c, c.current_index)]
           ELSE consume_until_signed_num(c)
           : c \in {consume(a)} })

\* (mutant) takes every '-' for a sign, whatever follows it
AfterMinus_AnySign(a) ==
    Only({ IF b.err # "none" THEN b ELSE [b EXCEPT !.sign = 0 - 1]
           : b \in {peek(consume(a))} })

AfterMinus(a) ==
    Only({ IF b.err # "none" THEN b
           ELSE IF is_ascii_digit(b.ch) THEN [b EXCEPT !.sign = 0 - 1]
           ELSE consume_until_signed_num(b)
           : b \in {peek(consume(a))} })

consume_until_signed_num(r) ==
    Only({ IF a.err # "none" THEN a
           ELSE IF a.ch # MINUS THEN [a EXCEPT !.sign = 1]
           ELSE AfterMinus(a)
           : a \in {consume_until(r, DigitOrMinus)} })

\* (mutant) an eager extraction that ends without its skip
EagerSkip_Off(r) == r

\* (mutant) skips after every extraction, in lazy mode too
EagerSkip_Always(r) ==
    IF r.err # "none" THEN r
    ELSE consume_until_or_end([r EXCEPT !.phase = "skip"], Graphic)

\* the skip every eager extraction ends with
EagerSkip(r) ==
    IF r.err # "none" THEN r
    ELSE IF r.eager
         THEN consume_until_or_end([r EXCEPT !.phase = "skip"], Graphic)
    ELSE r

\* (mutant) a lazy extraction that starts without its skip
LazySkip_Off(r) == r

\* the skip a lazy next_word / next_char starts with
LazySkip(r) ==
    IF r.err # "none" THEN r
    ELSE IF ~r.eager THEN consume_until(r, Graphic)
    ELSE r

----------------------------------------------------------------------------
(* InputReader: construction and token extraction *)

\* let mut ir = Self { reader, buf: vec![0; 1 << 16], bytes_read: 0, ... }
new_reader(src, eager) ==
    [data |-> src.data, cuts |-> src.cuts, avail |-> src.avail,
     closed |-> src.closed, pos |-> src.pos,
     buf |-> <<>>, buf_len |-> DefaultBufSize,
     bytes_read |-> 0, current_index |-> 0,
     str_buf |-> <<>>, eager |-> eager,
     ok |-> FALSE, ch |-> None, num |-> 0, sign |-> 1, got |-> 0,
     err |-> "none", phase |-> "token", overrun |-> FALSE, seen |-> <<>>]

from_reader(src, eager) == EagerSkip(new_reader(src, eager))

\* consume(); if !self.has_more() { break }: the end of each loop's body
RECURSIVE WordLoop(_)
WordStep(c) ==
    Only({ IF h.err # "none" THEN h
           ELSE IF ~h.ok THEN h
           ELSE WordLoop(h)
           : h \in {has_more(consume([c EXCEPT !.str_buf = Append(c.str_buf, c.ch)]))} })

\* while self.peek().is_ascii_graphic() { push(peek()); consume(); ... }
WordLoop(r) ==
    Only({ IF s.err # "none" THEN s
           ELSE IF ~is_ascii_graphic(s.ch) THEN s
           ELSE Only({ WordStep(c) : c \in {peek(s)} })
           : s \in {peek(r)} })

next_word(r) ==
    Only({ IF a.err # "none" THEN a
           ELSE Only({ EagerSkip(b) : b \in {WordLoop([a EXCEPT !.str_buf = <<>>])} })
           : a \in {LazySkip([r EXCEPT !.phase = "token"])} })

RECURSIVE LineLoop(_)
LineStep(s) ==
    Only({ IF h.err # "none" THEN h
           ELSE IF ~h.ok THEN h
           ELSE LineLoop(h)
           : h \in {has_more([s EXCEPT !.str_buf = Append(s.str_buf, s.ch)])} })

\* (mutant) leaves the newline that ends the line unread
LineLoop_KeepNewline(r) ==
    Only({ IF s.err # "none" THEN s
           ELSE IF s.ch = NL THEN s
           ELSE LineStep(consume(s))
           : s \in {peek(r)} })

\* loop { c = peek(); consume(); '\n' => break, other => push(other); ... }
LineLoop(r) ==
    Only({ IF s.err # "none" THEN s
           ELSE Only({ IF s.ch = NL THEN c ELSE LineStep(c) : c \in {consume(s)} })
           : s \in {peek(r)} })

next_line_no_skip(r) ==
    LineLoop([r EXCEPT !.phase = "token", !.str_buf = <<>>])

next_line(r) ==
    Only({ EagerSkip(s) : s \in {next_line_no_skip(r)} })

\* let c = self.peek(); self.consume(); (the eager skip); c
next_char(r) ==
    Only({ Only({ Only({ IF s.err # "none" THEN s ELSE [s EXCEPT !.ch = c.ch]
                         : s \in {EagerSkip(consume(c))} })
                  : c \in {peek(a)} })
           : a \in {LazySkip([r EXCEPT !.phase = "token"])} })

RECURSIVE DigitLoop(_)
DigitStep(d) ==
    Only({ IF h.err # "none" THEN h
           ELSE IF ~h.ok THEN h
           ELSE DigitLoop(h)
           : h \in {has_more(consume([d EXCEPT !.num = d.num * 10 + (d.ch - 48)]))} })

\* while self.peek().is_ascii_digit() { num = num * 10 + digit; consume(); ... }
DigitLoop(r) ==
    Only({ IF s.err # "none" THEN s
           ELSE IF ~is_ascii_digit(s.ch) THEN s
           ELSE Only({ DigitStep(d) : d \in {peek(s)} })
           : s \in {peek(r)} })

next_u64(r) ==
    Only({ IF a.err # "none" THEN a
           ELSE Only({ EagerSkip(b) : b \in {DigitLoop([a EXCEPT !.num = 0])} })
           : a \in {consume_until([r EXCEPT !.phase = "token"], Digit)} })

\* self.next_u64() as i64 * sign
next_i64(r) ==
    Only({ IF a.err # "none" THEN a
           ELSE Only({ IF b.err # "none" THEN b
                       ELSE [b EXCEPT !.num = b.num * a.sign]
                       : b \in {next_u64(a)} })
           : a \in {consume_until_signed_num([r EXCEPT !.phase = "token"])} })

\* (mutant) resizes without the assertion
set_buf_size_Unchecked(r, buf_size) ==
    [r EXCEPT !.buf_len = buf_size,
              !.buf = SubSeq(r.buf, 1, Min2(buf_size, Len(r.buf)))]

set_buf_size(r, buf_size) ==
    IF ~(buf_size >= r.bytes_read)
    THEN [r EXCEPT !.err = "Data loss while shrinking buffer"]
    ELSE [r EXCEPT !.buf_len = buf_size,
                   !.buf = SubSeq(r.buf, 1, Min2(buf_size, Len(r.buf)))]

----------------------------------------------------------------------------
(* OutputWriter *)

from_writer(sink) == [writer |-> sink, buf |-> <<>>, err |-> "none"]

\* (mutant) a write that puts its bytes in front of the buffered ones
write_Front(w, bytes) == [w EXCEPT !.buf = bytes \o w.buf]

\* Write::write: self.buf.extend(bytes)
write(w, bytes) == [w EXCEPT !.buf = w.buf \o bytes]

\* write!(self, "{}", t): the text of t
print(w, t) == write(w, t)

\* (mutant) prints without its separator
prints_NoSpace(w, t) == write(w, t)

\* write!(self, "{} ", t)
prints(w, t) == write(write(w, t), <<SP>>)

\* writeln!(self, "{}", t)
println(w, t) == write(write(w, t), <<NL>>)

\* (mutant) ends the buffer with a newline by appending one, whatever the last byte
s2nl_AlwaysPush(w) ==
    IF w.buf = <<>> THEN [w EXCEPT !.err = "Buffer is empty"]
    ELSE [w EXCEPT !.buf = Append(w.buf, NL)]

s2nl(w) ==
    IF w.buf = <<>> THEN [w EXCEPT !.err = "Buffer is empty"]
    ELSE LET n == Len(w.buf)
         IN  IF w.buf[n] = SP THEN [w EXCEPT !.buf[n] = NL]
             ELSE IF w.buf[n] = NL THEN w
             ELSE [w EXCEPT !.buf = Append(w.buf, NL)]

nl(w) == [w EXCEPT !.buf = Append(w.buf, NL)]

YES == <<89, 69, 83>>
NO == <<78, 79>>

yesno(w, b) == println(w, IF b THEN YES ELSE NO)

\* (mutant) a flush that clears the buffer without handing it to the sink
flush_Discard(w) ==
    IF w.err # "none" THEN w
    ELSE [w EXCEPT !.buf = <<>>]

\* (mutant) a flush that forgets to clear the buffer
flush_NoClear(w) ==
    IF w.err # "none" THEN w
    ELSE [w EXCEPT !.writer = w.writer \o w.buf]

\* write_all(&self.buf)?; flush()?; self.buf.clear()  (the sink accepts every write)
flush(w) ==
    IF w.err # "none" THEN w
    ELSE [w EXCEPT !.writer = w.writer \o w.buf, !.buf = <<>>]

\* Drop::drop
drop(w) ==
    flush(IF w.buf # <<>> THEN s2nl(w) ELSE w)

\* flush on a sink that answers "ok", or rejects write_all after it took the
\* first k buffered bytes ("write_all"), or takes them all and rejects its own
\* flush ("flush"): ? returns the error before self.buf.clear()
flush_with(w, answer, k) ==
    IF w.err # "none" THEN w
    ELSE CASE answer = "ok" -> [w EXCEPT !.writer = w.writer \o w.buf, !.buf = <<>>]
           [] answer = "write_all" -> [w EXCEPT !.writer = w.writer \o SubSeq(w.buf, 1, k)]
           [] answer = "flush" -> [w EXCEPT !.writer = w.writer \o w.buf]

\* what flush returns then
Result(answer) == IF answer = "ok" THEN "Ok" ELSE "Err"

\* Drop::drop on such a sink: self.flush().unwrap()
drop_with(w, answer, k) ==
    IF answer = "ok"
    THEN flush_with(IF w.buf # <<>> THEN s2nl(w) ELSE w, answer, k)
    ELSE [flush_with(IF w.buf # <<>> THEN s2nl(w) ELSE w, answer, k)
              EXCEPT !.err = "called unwrap on an Err value"]

----------------------------------------------------------------------------
(* What a reader has not consumed yet (used to state properties) *)

\* the unread bytes of the buffer followed by those still in the source
Unread(r) ==
    [i \in 1..(r.bytes_read - r.current_index) |-> BufAt(r, r.current_index + i - 1)]
        \o SubSeq(r.data, r.pos + 1, Len(r.data))

Consumed(r) == Len(r.data) - Len(Unread(r))

HasGraphic(seq) == \E i \in 1..Len(seq) : is_ascii_graphic(seq[i])

----------------------------------------------------------------------------
(* Inputs and chunkings *)

\* space, newline, 'a', '1'
Alphabet == {SP, NL, 97, 49}

Strings(S, n) == UNION {[1..k -> S] : k \in 0..n}

\* where the reads of a source of n bytes end: at most m places, or after every byte
CutsUpTo(n, m) ==
    {c \in SUBSET (1..(n - 1)) : Cardinality(c) <= m} \cup {1..(n - 1)}

CutSets(n) == CutsUpTo(n, MaxCuts)

NoReader == from_reader(Source(<<>>, {}, 0, TRUE), FALSE)
NoWriter == from_writer(<<>>)

----------------------------------------------------------------------------
(* SpecReader: any public method, in any order, on a reader over a source  *)
(* that holds its whole input                                              *)

\* a reader just built over a source that holds all of data, read in chunks
\* that end at cuts; the other objects idle
Reading(data, cuts, eager) ==
    /\ ir = from_reader(Source(data, cuts, Len(data), TRUE), eager)
    /\ last = "from_reader"
    /\ arg = 0
    /\ out = <<>>
    /\ calls = <<>>
    /\ pre = NoReader
    /\ ow = NoWriter
    /\ written = <<>>
    /\ collapsed = FALSE
    /\ twin = NoReader
    /\ vals = <<>>
    /\ stage = "reading"

\* "a\n b": a line break followed by an indented word
Sample == <<97, NL, SP, 98>>

InitReader ==
    \E data \in Strings(Alphabet, MaxLen) \cup {Sample} :
    \E cuts \in CutSets(Len(data)) :
    \E eager \in BOOLEAN :
        Reading(data, cuts, eager)

\* a panic ends the program: nothing is called on a reader that panicked
Live == stage = "reading" /\ ir.err = "none"

\* the reader as a call finds it: the previous call's results are gone
Enter(r) ==
    [r EXCEPT !.ok = FALSE, !.ch = None, !.num = 0, !.sign = 1, !.got = 0,
              !.phase = "token"]

Call(name, s) ==
    /\ Live
    /\ ir' = s
    /\ last' = name
    /\ arg' = 0
    /\ UNCHANGED <<twin, out, calls, pre, ow, written, collapsed, vals, stage>>

NextWord == Call("next_word", next_word(Enter(ir)))
NextLine == Call("next_line", next_line(Enter(ir)))
NextLineNoSkip == Call("next_line_no_skip", next_line_no_skip(Enter(ir)))
NextChar == Call("next_char", next_char(Enter(ir)))
NextU64 == Call("next_u64", next_u64(Enter(ir)))
NextI64 == Call("next_i64", next_i64(Enter(ir)))
Peek == Call("peek", peek(Enter(ir)))
OptPeek == Call("opt_peek", opt_peek(Enter(ir)))
HasMore == Call("has_more", has_more(Enter(ir)))

SetBufSize ==
    \E n \in 0..MaxBuf :
        /\ Live
        /\ ir' = set_buf_size(Enter(ir), n)
        /\ last' = "set_buf_size"
        /\ arg' = n
        /\ UNCHANGED <<twin, out, calls, pre, ow, written, collapsed, vals, stage>>

NextReader ==
    \/ NextWord \/ NextLine \/ NextLineNoSkip \/ NextChar \/ NextU64 \/ NextI64
    \/ Peek \/ OptPeek \/ HasMore

SpecReader == InitReader /\ [][NextReader]_vars

----------------------------------------------------------------------------
(* SpecResize: the same, with set_buf_size among the calls, on inputs of   *)
(* spaces and letters                                                      *)

\* "-1 2"
Numbers == <<MINUS, 49, SP, 50>>

InitResize ==
    \E data \in Strings({SP, 97}, MaxLen) \cup {Numbers} :
    \E cuts \in CutSets(Len(data)) :
    \E eager \in BOOLEAN :
        Reading(data, cuts, eager)

NextResize == NextReader \/ SetBufSize

SpecResize == InitResize /\ [][NextResize]_vars

----------------------------------------------------------------------------
(* SpecInts: inputs written from integers, read back with next_u64 and     *)
(* next_i64                                                                *)

RECURSIVE Decimal(_)
\* the decimal digits of n >= 0
Decimal(n) == IF n < 10 THEN <<48 + n>> ELSE Append(Decimal(n \div 10), 48 + (n % 10))

\* the text of an integer
IntText(v) == IF v < 0 THEN <<MINUS>> \o Decimal(0 - v) ELSE Decimal(v)

IntVals == {0, 12, 0 - 34}

RECURSIVE Join(_, _)
\* the texts of vs, one sep between two of them
Join(vs, sep) ==
    IF Len(vs) = 0 THEN <<>>
    ELSE IF Len(vs) = 1 THEN IntText(vs[1])
    ELSE IntText(vs[1]) \o sep \o Join(Tail(vs), sep)

InitInts ==
    \E vs \in UNION {[1..k -> IntVals] : k \in 1..MaxNums} :
    \E sep \in {<<SP>>, <<NL>>, <<SP, NL>>} :
    \E tail \in {<<>>, <<NL>>} :
    \E cuts \in CutsUpTo(Len(Join(vs, sep) \o tail), MaxIntCuts) :
    \E eager \in BOOLEAN :
        /\ ir = from_reader(Source(Join(vs, sep) \o tail, cuts,
                                   Len(Join(vs, sep) \o tail), TRUE), eager)
        /\ last = "from_reader"
        /\ arg = 0
        /\ out = <<>>
        /\ calls = <<>>
        /\ pre = NoReader
        /\ ow = NoWriter
        /\ written = <<>>
        /\ collapsed = FALSE
        /\ twin = from_reader(Source(Join(vs, sep) \o tail, {},
                                      Len(Join(vs, sep) \o tail), TRUE), eager)
        /\ vals = vs
        /\ stage = "reading"

\* a call on ir whose result, when it returns, is kept in out; w is what the
\* same call makes of the reader twin
RecordBoth(name, s, value, w) ==
    /\ Live
    /\ ir' = s
    /\ twin' = w
    /\ last' = name
    /\ calls' = Append(calls, name)
    /\ out' = IF s.err = "none" THEN Append(out, value) ELSE out
    /\ UNCHANGED <<arg, pre, ow, written, collapsed, vals, stage>>

Record(name, s, value) == RecordBoth(name, s, value, twin)

IntU64 ==
    \E s \in {next_u64(Enter(ir))} : \E w \in {next_u64(Enter(twin))} :
        RecordBoth("next_u64", s, s.num, w)
IntI64 ==
    \E s \in {next_i64(Enter(ir))} : \E w \in {next_i64(Enter(twin))} :
        RecordBoth("next_i64", s, s.num, w)

NextInts == IntU64 \/ IntI64

SpecInts == InitInts /\ [][NextInts]_vars

\* C1: whatever the chunking, each next_u64 / next_i64 call returns what the
\* same call returns on the reader that got the whole input in one read (and
\* fails where that one fails), and the values returned are the integers the
\* input was written from: each of them with next_i64, the non-negative ones
\* with next_u64 as well.
C1_ChunkingIndependent ==
    /\ Len(out) <= Len(vals)
    /\ \A k \in 1..Len(out) :
          (calls[k] = "next_i64" \/ vals[k] >= 0) => out[k] = vals[k]
    /\ twin.err = ir.err
    /\ (calls # <<>> /\ ir.err = "none") =>
          /\ twin.num = ir.num
          /\ Unread(twin) = Unread(ir)

\* two integers, the second negative, read back from one-byte reads
C1_Witness ==
    /\ Len(vals) = 2 /\ vals[1] = 12 /\ vals[2] < 0
    /\ out = vals
    /\ ir.cuts = 1..(Len(ir.data) - 1)

----------------------------------------------------------------------------
(* SpecWriter: write operations, flush and s2nl in any order on an         *)
(* OutputWriter whose sink accepts every write, then its release           *)

\* what is printed: "a", " ", "a "
Texts == {<<97>>, <<SP>>, <<97, SP>>}

InitWriter ==
    /\ ow = from_writer(<<>>)
    /\ written = <<>>
    /\ collapsed = FALSE
    /\ twin = NoReader
    /\ stage = "writing"
    /\ ir = NoReader
    /\ last = "from_writer"
    /\ arg = 0
    /\ out = <<>>
    /\ calls = <<>>
    /\ pre = NoReader
    /\ vals = <<>>

Writing == stage = "writing" /\ ow.err = "none"

\* a write operation handed bytes and left the writer as w
Wrote(name, w, bytes) ==
    /\ Writing
    /\ Len(written) + Len(bytes) <= MaxOut
    /\ ow' = w
    /\ written' = written \o bytes
    /\ last' = name
    /\ UNCHANGED <<twin, ir, arg, out, calls, pre, collapsed, vals, stage>>

CallPrint == \E t \in Texts : Wrote("print", print(ow, t), t)
CallPrints == \E t \in Texts : Wrote("prints", prints(ow, t), t \o <<SP>>)
CallPrintln == \E t \in Texts : Wrote("println", println(ow, t), t \o <<NL>>)
CallNl == Wrote("nl", nl(ow), <<NL>>)
CallYesno == \E b \in BOOLEAN : Wrote("yesno", yesno(ow, b), (IF b THEN YES ELSE NO) \o <<NL>>)
CallWrite == \E bytes \in {<<98>>, <<98, NL>>} : Wrote("write", write(ow, bytes), bytes)

CallFlush ==
    /\ Writing
    /\ ow' = flush(ow)
    /\ last' = "flush"
    /\ UNCHANGED <<twin, ir, arg, out, calls, pre, written, collapsed, vals, stage>>

CallS2nl ==
    /\ Writing
    /\ ow' = s2nl(ow)
    /\ last' = "s2nl"
    /\ collapsed' = TRUE
    /\ UNCHANGED <<twin, ir, arg, out, calls, pre, written, vals, stage>>

\* the writer goes out of scope
CallDrop ==
    /\ Writing
    /\ ow' = drop(ow)
    /\ last' = "drop"
    /\ arg' = Len(ow.buf)
    /\ stage' = "dropped"
    /\ UNCHANGED <<twin, ir, out, calls, pre, written, collapsed, vals>>

NextWriter ==
    \/ CallPrint \/ CallPrints \/ CallPrintln \/ CallNl \/ CallYesno \/ CallWrite \/ CallFlush \/ CallS2nl \/ CallDrop

SpecWriter == InitWriter /\ [][NextWriter]_vars

\* a released writer that was only written to and flushed
Released == stage = "dropped" /\ ~collapsed

\* C2 as claimed: after release the sink holds the written bytes, byte for
\* byte, except that a final space may have become a newline; no byte is added.
C2_NoByteAdded ==
    Released =>
        /\ ow.err = "none"
        /\ Len(ow.writer) = Len(written)
        /\ \A i \in 1..Len(written) :
              \/ ow.writer[i] = written[i]
              \/ i = Len(written) /\ written[i] = SP /\ ow.writer[i] = NL

\* what release makes of the written bytes w when k of them were still buffered
ReleasedBytes(w, k) ==
    IF k = 0 THEN w
    ELSE IF w[Len(w)] = SP THEN [w EXCEPT ![Len(w)] = NL]
    ELSE IF w[Len(w)] = NL THEN w
    ELSE Append(w, NL)

\* C2, amended: after release the sink holds the written bytes, in write order,
\* each once; when bytes were still buffered at release, a final space has
\* become a newline, and a newline has been added after a final byte that is
\* neither a space nor a newline.
C2_Released ==
    Released =>
        /\ ow.err = "none"
        /\ ow.buf = <<>>
        /\ ow.writer = ReleasedBytes(written, arg)

\* released with a flushed part and a buffered part that ends in a space
C2_Witness ==
    /\ Released
    /\ arg > 0 /\ arg < Len(written)
    /\ written[Len(written)] = SP
    /\ ow.writer[Len(written)] = NL

\* C12: s2nl never touches the sink nor any byte before the last buffered
\* one; a last byte that is a space becomes a newline, the length unchanged;
\* a last byte that is a newline leaves the buffer as it is; on an empty
\* buffer (a new writer, or one just flushed) the call panics with "Buffer is
\* empty".
C12_S2nlCases ==
    [][ last' = "s2nl" =>
          /\ ow'.writer = ow.writer
          /\ ow.buf = <<>> => (ow'.err = "Buffer is empty" /\ ow'.buf = <<>>)
          /\ ow.buf # <<>> =>
                /\ ow'.err = "none"
                /\ SubSeq(ow'.buf, 1, Len(ow.buf) - 1) = SubSeq(ow.buf, 1, Len(ow.buf) - 1)
                /\ ow.buf[Len(ow.buf)] = SP => ow'.buf = [ow.buf EXCEPT ![Len(ow.buf)] = NL]
                /\ ow.buf[Len(ow.buf)] = NL => ow'.buf = ow.buf ]_vars

\* a space after other bytes, collapsed while part of the output is in the sink
C12_Witness ==
    /\ last = "s2nl" /\ ow.err = "none"
    /\ ow.writer # <<>> /\ Len(ow.buf) >= 2
    /\ written[Len(written)] = SP /\ ow.buf[Len(ow.buf)] = NL
    /\ Len(ow.writer) + Len(ow.buf) = Len(written)

WriteOps == {"write", "print", "prints", "println", "nl", "yesno"}

\* C13 as claimed: at any time the sink's contents followed by the buffer's
\* are the written bytes, in call order.
C13_SinkThenBuffer == ow.writer \o ow.buf = written

\* C13, amended: every write operation succeeds, leaves the sink untouched and
\* appends its bytes at the end of the buffer; the sink changes only in flush
\* and at release; and as long as s2nl has not acted (neither called nor run
\* by the release) the sink's contents followed by the buffer's are the
\* written bytes, in call order.
C13_WritesAppend ==
    /\ [][ last' \in WriteOps =>
             /\ ow'.err = "none"
             /\ ow'.writer = ow.writer
             /\ Len(written') > Len(written)
             /\ ow'.buf = ow.buf \o SubSeq(written', Len(written) + 1, Len(written')) ]_vars
    /\ [][ ow'.writer # ow.writer => last' \in {"flush", "drop"} ]_vars
    /\ []((~collapsed /\ stage = "writing") => ow.writer \o ow.buf = written)

\* a yesno after a flush: "a" in the sink, "NO\n" in the buffer
C13_Witness ==
    /\ last = "yesno" /\ ~collapsed /\ stage = "writing"
    /\ ow.writer = <<97>> /\ ow.buf = NO \o <<NL>>
    /\ written = ow.writer \o ow.buf

\* C14: whatever the state of the writer, a flush hands the buffered bytes to
\* the sink, after those it holds, and leaves the buffer empty: the sink then
\* holds every byte written so far, in order (as they were written, when no
\* s2nl edited the buffer); flushing again right away adds nothing.
C14_FlushEmpties ==
    /\ [][ last' = "flush" =>
             /\ ow'.err = "none"
             /\ ow'.buf = <<>>
             /\ ow'.writer = ow.writer \o ow.buf ]_vars
    /\ [](last = "flush" =>
             /\ ow.buf = <<>>
             /\ Len(ow.writer) >= Len(written)
             /\ ~collapsed => ow.writer = written
             /\ flush(ow) = ow)

\* a flush after several writes: all of "a b\n" is in the sink, in order
C14_Witness ==
    /\ last = "flush" /\ ~collapsed
    /\ ow.buf = <<>> /\ ow.writer = written
    /\ written = <<97, SP, 98, NL>>

----------------------------------------------------------------------------
(* SpecSink: write operations and flushes on an OutputWriter whose sink    *)
(* may reject a write_all or a flush, then its release                     *)

InitSink == InitWriter

\* how the sink answers a flush of the writer w
Answers(w) ==
    {<<"ok", 0>>, <<"flush", 0>>} \cup {<<"write_all", k>> : k \in 0..(Len(w.buf) - 1)}

\* an explicit flush; its result is kept in out
SinkFlush ==
    \E a \in Answers(ow) :
        /\ Writing
        /\ Len(out) < MaxFlushes
        /\ ow' = flush_with(ow, a[1], a[2])
        /\ out' = Append(out, Result(a[1]))
        /\ last' = "flush"
        /\ UNCHANGED <<twin, ir, arg, calls, pre, written, collapsed, vals, stage>>

\* the writer goes out of scope
SinkDrop ==
    \E a \in Answers(IF ow.buf # <<>> THEN s2nl(ow) ELSE ow) :
        /\ Writing
        /\ ow' = drop_with(ow, a[1], a[2])
        /\ last' = "drop"
        /\ arg' = Len(ow.buf)
        /\ stage' = "dropped"
        /\ UNCHANGED <<twin, ir, out, calls, pre, written, collapsed, vals>>

NextSink == CallPrint \/ CallPrintln \/ CallWrite \/ SinkFlush \/ SinkDrop

SpecSink == InitSink /\ [][NextSink]_vars

\* C18: a flush that fails returns the error, and loses or repeats no byte:
\* after a later flush that succeeds the sink holds the written bytes, each
\* once, and after a release that succeeds it holds them as released.
C18_FailedFlushKeeps ==
    /\ (last = "flush" /\ out[Len(out)] = "Ok") => ow.writer = written
    /\ (stage = "dropped" /\ ow.err = "none") => ow.writer = ReleasedBytes(written, arg)

----------------------------------------------------------------------------
(* Claims on SpecReader *)

\* C3: a call of next_word either returns a non-empty run of graphic bytes or
\* fails with "Reached end of input", no graphic byte being left.
C3_NeverEmptyWord ==
    last = "next_word" =>
        \/ /\ ir.err = "none"
           /\ ir.str_buf # <<>>
           /\ \A i \in 1..Len(ir.str_buf) : is_ascii_graphic(ir.str_buf[i])
        \/ /\ ir.err = "Reached end of input"
           /\ ~HasGraphic(Unread(ir))

----------------------------------------------------------------------------
(* SpecSign: next_i64 among next_u64 and next_char, on inputs of digits,   *)
(* '-' and spaces                                                          *)

\* "12-34- 56"
Example == <<49, 50, MINUS, 51, 52, MINUS, SP, 53, 54>>

InitSign ==
    /\ \E data \in Strings({MINUS, 49, SP}, MaxLen) \cup {Example} :
       \E cuts \in CutSets(Len(data)) :
       \E eager \in BOOLEAN :
           Reading(data, cuts, eager)

SignI64 == \E s \in {next_i64(Enter(ir))} : Record("next_i64", s, s.num)
SignU64 == \E s \in {next_u64(Enter(ir))} : Record("next_u64", s, s.num)
SignChar == \E s \in {next_char(Enter(ir))} : Record("next_char", s, s.ch)

NextSign == SignI64 \/ SignU64 \/ SignChar

SpecSign == InitSign /\ [][NextSign]_vars

\* where the first digit of seq is (0: nowhere)
FirstDigit(seq) ==
    IF \E i \in 1..Len(seq) : is_ascii_digit(seq[i])
    THEN SetMin({i \in 1..Len(seq) : is_ascii_digit(seq[i])})
    ELSE 0

RECURSIVE RunValue(_, _, _)
\* the value of the digit run of seq that starts at i, after acc
RunValue(seq, i, acc) ==
    IF i <= Len(seq) /\ is_ascii_digit(seq[i])
    THEN RunValue(seq, i + 1, acc * 10 + (seq[i] - 48))
    ELSE acc

\* the sign-adjacency rule on the bytes a call finds unread
Signed(seq) ==
    LET d == FirstDigit(seq)
    IN  IF d > 1 /\ seq[d - 1] = MINUS
        THEN 0 - RunValue(seq, d, 0)
        ELSE RunValue(seq, d, 0)

OnlyI64 == \A k \in 1..Len(calls) : calls[k] = "next_i64"

\* C4: a next_i64 call that returns finds a digit among the unread bytes and
\* returns the value of the first digit run, negated exactly when the byte
\* right before the run is an unread '-'; and on "12-34- 56" the results of
\* successive calls are 12, -34, 56.
C4_SignAdjacency ==
    /\ [][ (last' = "next_i64" /\ Len(calls') > Len(calls) /\ ir'.err = "none")
             => /\ FirstDigit(Unread(ir)) > 0
                /\ ir'.num = Signed(Unread(ir)) ]_vars
    /\ []( (ir.data = Example /\ OnlyI64 /\ Len(out) <= 3)
             => out = SubSeq(<<12, 0 - 34, 56>>, 1, Len(out)) )

\* the three results of the example, read in chunks
C4_Witness ==
    /\ ir.data = Example /\ ir.cuts # {} /\ OnlyI64
    /\ out = <<12, 0 - 34, 56>>

----------------------------------------------------------------------------
(* SpecLines: successive next_line calls *)

InitLines ==
    \E data \in Strings({SP, NL, 97}, MaxLen + 1) :
    \E cuts \in CutSets(Len(data)) :
    \E eager \in BOOLEAN :
        Reading(data, cuts, eager)

LineCall == \E s \in {next_line(Enter(ir))} : Record("next_line", s, s.str_buf)

NextLines == LineCall

SpecLines == InitLines /\ [][NextLines]_vars

\* where the first byte of seq outside / inside S is (0: nowhere)
FirstIn(seq, S) ==
    IF \E i \in 1..Len(seq) : seq[i] \in S
    THEN SetMin({i \in 1..Len(seq) : seq[i] \in S})
    ELSE 0

RECURSIVE Lines(_)
\* the lines of seq: what stands before each newline, and what follows the last
Lines(seq) ==
    IF seq = <<>> THEN <<>>
    ELSE LET k == FirstIn(seq, {NL})
         IN  IF k = 0 THEN <<seq>>
             ELSE <<SubSeq(seq, 1, k - 1)>> \o Lines(SubSeq(seq, k + 1, Len(seq)))

RECURSIVE SkippedLines(_)
\* the same, each line taken from the next graphic byte on
SkippedLines(seq) ==
    LET g == FirstIn(seq, Graphic)
    IN  IF g = 0 THEN <<>>
        ELSE LET rest == SubSeq(seq, g, Len(seq))
                 k == FirstIn(rest, {NL})
             IN  IF k = 0 THEN <<rest>>
                 ELSE <<SubSeq(rest, 1, k - 1)>>
                          \o SkippedLines(SubSeq(rest, k + 1, Len(rest)))

\* the calls so far returned the first lines of all, and failed only after the last
ReturnsLines(all) ==
    /\ Len(out) <= Len(all)
    /\ out = SubSeq(all, 1, Len(out))
    /\ ir.err # "none" => (ir.err = "Reached end of input" /\ Len(out) = Len(all))
    /\ Len(calls) > Len(out) => ir.err # "none"

\* C5 as claimed: in both modes successive next_line calls return the
\* successive lines of the input verbatim, leading spaces and empty lines
\* included, the last one also when no newline ends it.
C5_LinesVerbatim == ReturnsLines(Lines(ir.data))

\* C5, amended: in lazy mode successive next_line calls return the lines of
\* the input verbatim; in eager mode each call returns its line from the next
\* graphic byte on, the non-graphic bytes before it (blank lines, leading
\* spaces) having been skipped.
C5_Lines ==
    IF ir.eager THEN ReturnsLines(SkippedLines(ir.data))
    ELSE ReturnsLines(Lines(ir.data))

\* lazy mode: a line of one space, then a last line that no newline ends
C5_Witness ==
    /\ ~ir.eager /\ ir.cuts # {}
    /\ Len(out) = 2 /\ out[1] = <<SP>> /\ out[2] = <<97>>
    /\ ir.data[Len(ir.data)] # NL

----------------------------------------------------------------------------
(* Claims on SpecResize and SpecReader *)

\* C6: has_more() answers true exactly when a byte has not been consumed yet,
\* be it in the buffer or still in the source.
C6_HasMoreExact ==
    (last = "has_more" /\ ir.err = "none") => (ir.ok <=> Unread(ir) # <<>>)

Shrink == "Data loss while shrinking buffer"

\* C7: set_buf_size(n) with n below the number of buffered unread bytes fails
\* with the shrinking assertion and changes neither the buffer, nor
\* bytes_read, nor current_index, nor the position of the source.
C7_ShrinkFails ==
    [][ (Live /\ last' = "set_buf_size" /\ arg' < ir.bytes_read - ir.current_index)
          => /\ ir'.err = Shrink
             /\ ir'.buf = ir.buf /\ ir'.buf_len = ir.buf_len
             /\ ir'.bytes_read = ir.bytes_read
             /\ ir'.current_index = ir.current_index
             /\ ir'.pos = ir.pos ]_vars

\* a refused shrink below the two unread bytes of a partly consumed buffer
C7_Witness ==
    /\ last = "set_buf_size" /\ ir.err = Shrink
    /\ ir.current_index > 0
    /\ ir.bytes_read - ir.current_index = 2 /\ arg = 1

Extractions == {"next_word", "next_line", "next_char", "next_u64", "next_i64"}

\* C16: the source is read again only when every buffered byte has been
\* consumed, so no unread byte is overwritten: the bytes consumed so far,
\* followed by the unread bytes of the buffer and those still in the source,
\* are the source's bytes in source order, each once; and the byte a peek
\* returns is the first of the unread ones.
C16_RefillWhenExhausted ==
    /\ [][ ir'.pos # ir.pos =>
             Len(ir'.seen) - Len(ir.seen) >= ir.bytes_read - ir.current_index ]_vars
    /\ [](ir.seen \o Unread(ir) = ir.data)
    /\ []((last \in {"peek", "opt_peek"} /\ ir.err = "none" /\ ir.ch # None)
            => ir.ch = Head(Unread(ir)))

\* one-byte reads: a word that spans two of them, consumed whole, the byte
\* after it buffered by a third and left unread
C16_Witness ==
    /\ last = "next_word" /\ ir.err = "none"
    /\ ir.cuts = {1, 2} /\ ir.str_buf = <<97, 49>>
    /\ ir.seen = ir.str_buf /\ Len(Unread(ir)) = 1

Lookaheads == {"peek", "opt_peek", "has_more"}

\* C17: peek, opt_peek and has_more consume nothing: with or without a
\* refill, the unread bytes are the same after the call as before it.  While
\* a byte is unread, peek and opt_peek return the first one (so peeks that
\* follow each other return the same byte); at the end of the input peek
\* fails with "Reached end of input" and opt_peek returns None.
C17_LookaheadKeeps ==
    [][ (last' \in Lookaheads) =>
          /\ Unread(ir') = Unread(ir)
          /\ ir'.seen = ir.seen
          /\ (last' # "has_more" /\ Unread(ir) # <<>>) =>
                (ir'.err = "none" /\ ir'.ch = Head(Unread(ir)))
          /\ (last' = "peek" /\ Unread(ir) = <<>>) => ir'.err = "Reached end of input"
          /\ (last' = "opt_peek" /\ Unread(ir) = <<>>) =>
                (ir'.err = "none" /\ ir'.ch = None)
          /\ (last' = "has_more") => ir'.err = "none" ]_vars

\* a peek that had to refill the buffer, after the first byte was consumed
C17_Witness ==
    /\ last = "peek" /\ ir.err = "none" /\ ir.ch = 97
    /\ ir.got = 1 /\ ir.current_index = 0 /\ ir.pos = 2
    /\ ir.seen = <<49>> /\ Len(Unread(ir)) = 2

\* C15: in every state reached through construction, extractions, peek,
\* opt_peek, has_more and set_buf_size, current_index <= bytes_read <=
\* buf.len(); no consume() was executed without a buffered byte to consume,
\* and no access to buf[current_index] fell outside the buffer.
C15_IndexInvariant ==
    /\ ir.current_index <= ir.bytes_read
    /\ ir.bytes_read <= ir.buf_len
    /\ ~ir.overrun
    /\ ir.err # "index out of bounds"

\* a buffer of one byte, full and consumed to its end
C15_Witness ==
    /\ ir.err = "none" /\ last \in Extractions
    /\ ir.buf_len = 1 /\ ir.bytes_read = 1 /\ ir.current_index = 1
    /\ Consumed(ir) >= 2

\* C9: in eager mode, after construction and after every token extraction
\* other than next_line_no_skip that returns, either no byte is left or the
\* next unread byte is buffered and graphic; has_more() is then true exactly
\* when a graphic byte is left.
C9_EagerPositioned ==
    (ir.eager /\ ir.err = "none" /\ last \in Extractions \cup {"from_reader"})
        => /\ \/ Unread(ir) = <<>>
              \/ /\ ir.current_index < ir.bytes_read
                 /\ is_ascii_graphic(BufAt(ir, ir.current_index))
           /\ has_more(Enter(ir)).ok <=> HasGraphic(Unread(ir))

\* a number read and the separator after it skipped, up to the next token
C9_Witness ==
    /\ ir.eager /\ ir.err = "none" /\ last = "next_u64"
    /\ ir.num = 1 /\ Len(ir.data) = 3 /\ ir.data[2] = NL
    /\ Unread(ir) = <<97>>

----------------------------------------------------------------------------
(* SpecRound: values written with prints, s2nl, flush; the sink's contents *)
(* read back with next_word                                                *)

\* "a", "ab", "-1"
Words == {<<97>>, <<97, 98>>, <<MINUS, 49>>}

InitRound ==
    /\ ow = from_writer(<<>>)
    /\ written = <<>>
    /\ collapsed = FALSE
    /\ twin = NoReader
    /\ stage = "writing"
    /\ vals = <<>>
    /\ ir = NoReader
    /\ last = "from_writer"
    /\ arg = 0
    /\ out = <<>>
    /\ calls = <<>>
    /\ pre = NoReader

RoundPrints ==
    \E t \in Words :
        /\ Writing
        /\ Len(vals) < MaxVals
        /\ ow' = prints(ow, t)
        /\ vals' = Append(vals, t)
        /\ written' = written \o t \o <<SP>>
        /\ last' = "prints"
        /\ UNCHANGED <<twin, ir, arg, out, calls, pre, collapsed, stage>>

RoundS2nl ==
    /\ Writing
    /\ Len(vals) >= 1
    /\ ow' = s2nl(ow)
    /\ collapsed' = TRUE
    /\ stage' = "collapsed"
    /\ last' = "s2nl"
    /\ UNCHANGED <<twin, ir, arg, out, calls, pre, written, vals>>

RoundFlush ==
    /\ stage = "collapsed" /\ ow.err = "none"
    /\ ow' = flush(ow)
    /\ stage' = "flushed"
    /\ last' = "flush"
    /\ UNCHANGED <<twin, ir, arg, out, calls, pre, written, collapsed, vals>>

\* the sink's contents become the input of a new reader
RoundFeed ==
    \E cuts \in CutSets(Len(ow.writer)) :
    \E eager \in BOOLEAN :
        /\ stage = "flushed" /\ ow.err = "none"
        /\ ir' = from_reader(Source(ow.writer, cuts, Len(ow.writer), TRUE), eager)
        /\ stage' = "reading"
        /\ last' = "from_reader"
        /\ UNCHANGED <<twin, arg, out, calls, pre, ow, written, collapsed, vals>>

RoundWord ==
    /\ Len(calls) < Len(vals)
    /\ \E s \in {next_word(Enter(ir))} : Record("next_word", s, s.str_buf)

NextRound == RoundPrints \/ RoundS2nl \/ RoundFlush \/ RoundFeed \/ RoundWord

SpecRound == InitRound /\ [][NextRound]_vars

\* C8: N >= 1 non-empty graphic values written with prints, then s2nl and
\* flush; N calls of next_word on the sink's contents return the N values in
\* order (none of the calls fails).
C8_RoundTrip ==
    stage = "reading" =>
        /\ ir.err = "none"
        /\ Len(out) = Len(calls)
        /\ out = SubSeq(vals, 1, Len(out))

\* all of several values read back from a chunked source
C8_Witness ==
    /\ stage = "reading" /\ Len(vals) >= 2 /\ out = vals
    /\ vals[1] # vals[2] /\ ir.cuts # {}

----------------------------------------------------------------------------
(* SpecTalk: a source whose producer sends the input piece by piece; a     *)
(* read with nothing to deliver waits (err = "blocked") until more is sent *)
(* or the source is closed, and the waiting call then goes on.  A call     *)
(* that waits is resumed by running it again from pre, the reader as the   *)
(* call found it: the reads it made before are repeated as they were,     *)
(* every place where it waited being kept as a chunk boundary.            *)

InitTalk ==
    /\ \E data \in Strings({SP, NL, 97}, MaxLen) :
       \E eager \in BOOLEAN :
          /\ pre = new_reader(Source(data, {}, 0, FALSE), eager)
          /\ ir = EagerSkip(pre)
    /\ last = "from_reader"
    /\ arg = 0
    /\ out = <<>>
    /\ calls = <<>>
    /\ ow = NoWriter
    /\ written = <<>>
    /\ collapsed = FALSE
    /\ twin = NoReader
    /\ vals = <<>>
    /\ stage = "reading"

Apply(name, r) ==
    CASE name = "from_reader" -> EagerSkip(r)
      [] name = "next_word" -> next_word(r)
      [] name = "next_line" -> next_line(r)
      [] name = "next_char" -> next_char(r)
      [] name = "next_u64" -> next_u64(r)
      [] name = "next_i64" -> next_i64(r)
      [] name = "has_more" -> has_more(r)

TalkCall(name) ==
    /\ Live
    /\ pre' = Enter(ir)
    /\ ir' = Apply(name, Enter(ir))
    /\ last' = name
    /\ UNCHANGED <<twin, arg, out, calls, ow, written, collapsed, vals, stage>>

TalkWord == TalkCall("next_word")
TalkLine == TalkCall("next_line")
TalkChar == TalkCall("next_char")

Waiting == stage = "reading" /\ ir.err = "blocked"

\* the producer sends k more bytes
Send ==
    \E k \in 1..(Len(ir.data) - ir.avail) :
        /\ stage = "reading"
        /\ ir.err \in {"none", "blocked"}
        /\ ir' = [ir EXCEPT !.avail = ir.avail + k,
                            !.cuts = IF Waiting THEN ir.cuts \cup {ir.avail} ELSE ir.cuts]
        /\ UNCHANGED <<twin, last, arg, out, calls, pre, ow, written, collapsed, vals, stage>>

\* the producer ends the input
Close ==
    /\ stage = "reading"
    /\ ir.err \in {"none", "blocked"}
    /\ ir.avail = Len(ir.data) /\ ~ir.closed
    /\ ir' = [ir EXCEPT !.closed = TRUE]
    /\ UNCHANGED <<twin, last, arg, out, calls, pre, ow, written, collapsed, vals, stage>>

\* the read returns and the waiting call goes on
Resume ==
    /\ Waiting
    /\ ir.pos < ir.avail \/ ir.closed
    /\ ir' = Apply(last, [pre EXCEPT !.avail = ir.avail, !.closed = ir.closed,
                                     !.cuts = ir.cuts])
    /\ UNCHANGED <<twin, last, arg, out, calls, pre, ow, written, collapsed, vals, stage>>

NextTalk == TalkWord \/ TalkLine \/ TalkChar \/ Send \/ Close \/ Resume

SpecTalk == InitTalk /\ [][NextTalk]_vars

\* C10 as claimed: the eager skip, after a token or at construction, never
\* waits in a read of a source that has nothing to deliver.
C10_SkipNeverWaits ==
    ir.eager => ~(ir.err = "blocked" /\ ir.phase = "skip")

\* C10, amended: the eager skip reads from the source whenever it has consumed
\* every buffered byte without finding a graphic one, so with a source that
\* waits for its producer it waits too: an eager extraction (or construction)
\* returns only once the next graphic byte has been delivered, which is then
\* the next unread byte, or the input has ended; where the skip waits, every
\* buffered byte has been consumed.
C10_SkipWaits ==
    ir.eager =>
        /\ (ir.err = "none" /\ last \in Extractions \cup {"from_reader"})
              => \/ /\ ir.current_index < ir.bytes_read
                    /\ is_ascii_graphic(BufAt(ir, ir.current_index))
                 \/ ir.closed /\ Unread(ir) = <<>>
        /\ (ir.err = "blocked" /\ ir.phase = "skip")
              => ir.current_index >= ir.bytes_read

\* the skip after the word "a" waits, the word and its separator delivered
C10_Witness ==
    /\ ir.eager /\ ir.err = "blocked" /\ ir.phase = "skip"
    /\ last = "next_word" /\ ir.str_buf = <<97>>
    /\ ir.avail >= 2 /\ ~is_ascii_graphic(ir.data[ir.avail])

----------------------------------------------------------------------------
(* SpecDialog: an interactive producer and a consumer.  The producer sends *)
(* one newline-terminated message, then waits for the consumer's reply     *)
(* before it sends the next; it never closes the source.  The consumer     *)
(* extracts the tokens of the messages it was sent and replies when none   *)
(* is left.  A read with nothing to deliver waits, as in SpecTalk.         *)

\* "1\n", "1 -12\n"
Msgs ==
    { <<49, NL>>, <<49, SP, MINUS, 49, 50, NL>> }

\* the reads of a source of n bytes deliver c bytes each, or (c = 0) all there is
ChunkCuts(n, c) == {k \in 1..(n - 1) : c > 0 /\ k % c = 0}

RECURSIVE Concat(_)
Concat(ms) == IF ms = <<>> THEN <<>> ELSE Head(ms) \o Concat(Tail(ms))

\* what the consumer answers to a message
ReplyText == <<49, NL>>

InitDialog ==
    /\ \E ms \in UNION {[1..k -> Msgs] : k \in 1..MaxMsgs} :
       \E c \in 0..MaxChunk :
       \E eager \in BOOLEAN :
          /\ vals = ms
          /\ pre = new_reader(Source(Concat(ms), ChunkCuts(Len(Concat(ms)), c), 0, FALSE),
                              eager)
          /\ ir = EagerSkip(pre)
    /\ last = "from_reader"
    /\ arg = 0
    /\ out = <<>>
    /\ calls = <<>>
    /\ ow = from_writer(<<>>)
    /\ written = <<>>
    /\ collapsed = FALSE
    /\ twin = NoReader
    /\ stage = "reading"

\* number of messages sent / of replies received by the producer
Sent == Cardinality({k \in 1..Len(vals) : Len(Concat(SubSeq(vals, 1, k))) <= ir.avail})
Replies == Len(ow.writer) \div Len(ReplyText)

\* the unread bytes the producer has sent already / that are in the buffer
Delivered(r) ==
    SubSeq(Unread(r), 1, Len(Unread(r)) - (Len(r.data) - r.avail))
Buffered(r) ==
    SubSeq(Unread(r), 1, r.bytes_read - r.current_index)

\* seq holds a token for the extraction name / holds it with the byte that ends it
HasToken(name, seq) ==
    CASE name \in {"next_word", "next_char"} -> HasGraphic(seq)
      [] name \in {"next_u64", "next_i64"} -> FirstDigit(seq) > 0
      [] name = "next_line" -> FirstIn(seq, {NL}) > 0

HasWholeToken(name, seq) ==
    CASE name = "next_word" ->
            \E i \in 1..Len(seq) : \E j \in (i + 1)..Len(seq) :
                is_ascii_graphic(seq[i]) /\ ~is_ascii_graphic(seq[j])
      [] name = "next_char" -> HasGraphic(seq)
      [] name \in {"next_u64", "next_i64"} ->
            \E i \in 1..Len(seq) : \E j \in (i + 1)..Len(seq) :
                is_ascii_digit(seq[i]) /\ ~is_ascii_digit(seq[j])
      [] name = "next_line" -> FirstIn(seq, {NL}) > 0

\* the consumer extracts a token of the messages it was sent
DialogCall(name) ==
    /\ Live
    /\ HasToken(name, Delivered(ir))
    /\ pre' = Enter(ir)
    /\ ir' = Apply(name, Enter(ir))
    /\ last' = name
    /\ UNCHANGED <<twin, arg, out, calls, ow, written, collapsed, vals, stage>>

DialogWord == DialogCall("next_word")
DialogChar == DialogCall("next_char")
DialogU64 == DialogCall("next_u64")
DialogI64 == DialogCall("next_i64")
DialogLine == DialogCall("next_line")

\* every token of the messages sent so far has been extracted
AllExtracted == ~HasGraphic(Delivered(ir))

\* the consumer answers the message whose tokens it has extracted
DialogReply ==
    /\ Live
    /\ Replies < Sent
    /\ AllExtracted
    /\ ow' = flush(println(ow, <<49>>))
    /\ written' = written \o ReplyText
    /\ UNCHANGED <<twin, ir, last, arg, out, calls, pre, collapsed, vals, stage>>

\* the producer sends its next message, the previous one answered
DialogSend ==
    /\ stage = "reading"
    /\ ir.err \in {"none", "blocked"}
    /\ Sent < Len(vals)
    /\ Replies = Sent
    /\ ir' = [ir EXCEPT !.avail = ir.avail + Len(vals[Sent + 1]),
                        !.cuts = IF Waiting THEN ir.cuts \cup {ir.avail} ELSE ir.cuts]
    /\ UNCHANGED <<twin, last, arg, out, calls, pre, ow, written, collapsed, vals, stage>>

\* the read returns and the waiting call goes on
DialogResume ==
    /\ Waiting
    /\ ir.pos < ir.avail
    /\ ir' = Apply(last, [pre EXCEPT !.avail = ir.avail, !.cuts = ir.cuts])
    /\ UNCHANGED <<twin, last, arg, out, calls, pre, ow, written, collapsed, vals, stage>>

NextDialog ==
    \/ DialogWord \/ DialogChar \/ DialogU64 \/ DialogI64 \/ DialogLine
    \/ DialogReply \/ DialogSend \/ DialogResume

\* consumer and producer are running processes: a step that can be taken is taken
SpecDialog == InitDialog /\ [][NextDialog]_vars /\ WF_vars(NextDialog)

\* every message sent, extracted and answered
DialogDone == Sent = Len(vals) /\ AllExtracted /\ Replies = Sent /\ ir.err = "none"

\* C11: in lazy mode an extraction whose token and terminating byte are in the
\* buffer reads nothing from the source; so, with a producer that sends each
\* message only when the previous one has been extracted and answered, no
\* extraction ever waits in a read, and the dialogue runs to its end.
C11_LazyNeverWaits ==
    /\ [](~ir.eager /\ Live =>
            \A name \in Extractions :
                HasWholeToken(name, Buffered(ir)) =>
                    \A s \in {Apply(name, Enter(ir))} :
                        s.err = "none" /\ s.pos = ir.pos)
    /\ [](~ir.eager => ir.err = "none")
    /\ (~ir.eager) ~> DialogDone

\* lazy mode: two messages read two bytes at a time, extracted and answered
C11_Witness ==
    /\ ~ir.eager /\ DialogDone
    /\ Len(vals) = 2 /\ 2 \in ir.cuts /\ 1 \notin ir.cuts
    /\ Replies = 2 /\ last = "next_i64"

----------------------------------------------------------------------------
(* SpecModes: an eager reader (ir) and a lazy one (twin) over the same     *)
(* input, read in the same chunks, taking the same calls                   *)

InitModes ==
    /\ \E data \in Strings(Alphabet \cup {MINUS}, MaxLen) :
       \E cuts \in CutSets(Len(data)) :
          /\ ir = from_reader(Source(data, cuts, Len(data), TRUE), TRUE)
          /\ twin = from_reader(Source(data, cuts, Len(data), TRUE), FALSE)
    /\ last = "from_reader"
    /\ arg = 0
    /\ out = <<>>
    /\ calls = <<>>
    /\ pre = NoReader
    /\ ow = NoWriter
    /\ written = <<>>
    /\ collapsed = FALSE
    /\ vals = <<>>
    /\ stage = "reading"

\* the same call on both readers
ModeCall(name) ==
    /\ Live /\ twin.err = "none"
    /\ ir' = Apply(name, Enter(ir))
    /\ twin' = Apply(name, Enter(twin))
    /\ last' = name
    /\ UNCHANGED <<arg, out, calls, pre, ow, written, collapsed, vals, stage>>

ModeWord == ModeCall("next_word")
ModeChar == ModeCall("next_char")
ModeU64 == ModeCall("next_u64")
ModeI64 == ModeCall("next_i64")

NextModes == ModeWord \/ ModeChar \/ ModeU64 \/ ModeI64

SpecModes == InitModes /\ [][NextModes]_vars

\* what the last call returned
Token(r) ==
    CASE last \in {"next_word", "next_line"} -> r.str_buf
      [] last = "next_char" -> <<r.ch>>
      [] last \in {"next_u64", "next_i64"} -> <<r.num>>
      [] OTHER -> <<>>

\* C19: whatever the input, its chunking and the calls of next_word,
\* next_char, next_u64 and next_i64 made so far, the eager and the lazy reader
\* have both returned from the last call, with the same token, or have both
\* failed in it with "Reached end of input".
C19_ModesAgree ==
    /\ ir.err = twin.err
    /\ ir.err \in {"none", "Reached end of input"}
    /\ ir.err = "none" => Token(ir) = Token(twin)

\* -1 read from one-byte reads by both; the eager reader has skipped the
\* space after it, the lazy one has not
C19_Witness ==
    /\ last = "next_i64" /\ ir.err = "none" /\ twin.err = "none"
    /\ ir.num = 0 - 1 /\ twin.num = 0 - 1
    /\ ir.cuts = {1, 2}
    /\ Unread(ir) = <<>> /\ Unread(twin) = <<SP>>

----------------------------------------------------------------------------
(* SpecShrink: a reader whose buffer is resized now and then (ir) and one  *)
(* that keeps the buffer it was built with (twin), over the same input,    *)
(* read in the same chunks, taking the same calls                          *)

InitShrink ==
    /\ \E data \in Strings({SP, 97}, MaxLen) \cup {Numbers} :
       \E cuts \in CutSets(Len(data)) :
       \E eager \in BOOLEAN :
          /\ ir = from_reader(Source(data, cuts, Len(data), TRUE), eager)
          /\ twin = from_reader(Source(data, cuts, Len(data), TRUE), eager)
    /\ last = "from_reader"
    /\ arg = 0
    /\ out = <<>>
    /\ calls = <<>>
    /\ pre = NoReader
    /\ ow = NoWriter
    /\ written = <<>>
    /\ collapsed = FALSE
    /\ vals = <<>>
    /\ stage = "reading"

ShrinkLine == ModeCall("next_line")
ShrinkHasMore == ModeCall("has_more")

\* set_buf_size on ir alone
ShrinkSet ==
    \E n \in 0..MaxBuf :
        /\ Live /\ twin.err = "none"
        /\ ir' = set_buf_size(Enter(ir), n)
        /\ last' = "set_buf_size"
        /\ arg' = n
        /\ UNCHANGED <<twin, out, calls, pre, ow, written, collapsed, vals, stage>>

NextShrink ==
    \/ ModeWord \/ ModeChar \/ ModeU64 \/ ModeI64 \/ ShrinkLine \/ ShrinkHasMore
    \/ ShrinkSet

SpecShrink == InitShrink /\ [][NextShrink]_vars

\* C20: as long as no set_buf_size call was refused, the reader whose buffer
\* was resized returns from each extraction what the reader with the original
\* buffer returns, fails where it fails, and has_more() answers the same.
C20_ResizeKeepsInput ==
    ir.err # Shrink =>
        /\ ir.err = twin.err
        /\ ir.err = "none" => Token(ir) = Token(twin)
        /\ (ir.err = "none" /\ last = "has_more") => ir.ok = twin.ok

====
